---- MODULE Spec2Model ----
(***************************************************************************)
(* A model of palworld_notify (src/main.py): the polling loop of the       *)
(* __main__ block and PalworldNotify.check, with every remote call         *)
(* (RCON session, ShowPlayers, Broadcast, Save, Shutdown, the two HTTP     *)
(* sinks) as one step that either returns or raises; a sink call may also  *)
(* never answer.                                                           *)
(*                                                                         *)
(* A DataFrame is modelled as the set of its rows (a row is a record       *)
(* keyed by column name); pandas' outer merge is the sorted sequence of    *)
(* the rows of both frames, each tagged with the _merge indicator.         *)
(* Display names are numbers, so "lexicographic" is numeric order.  The    *)
(* playeruid column is numeric and no table lists a player twice.          *)
(***************************************************************************)
EXTENDS Integers, Sequences, FiniteSets, TLC

\* Number of players that may be connected to the game server.
MaxPlayers == 2

\* Number of those players that are also seen while their character is still
\* loading, or under a second display name.
MaxVolatile == 1

Players == 1..MaxPlayers
Volatile == { p \in Players : p <= MaxVolatile }

(***************************************************************************)
(* Optional[...] values: None or a one-element sequence holding the value. *)
(***************************************************************************)
None == <<>>
Some(v) == <<v>>
Val(o) == o[1]

(***************************************************************************)
(* The ShowPlayers table.  Its header is name,playeruid,steamid.  A player *)
(* p has a fixed steamid and, once the character is loaded, one playeruid; *)
(* a volatile player is also listed with playeruid 0 (still loading) or    *)
(* under a second display name.                                            *)
(***************************************************************************)
Columns == <<"name", "playeruid", "steamid">>

NameA(p) == 2 * p - 1
NameB(p) == 2 * p
SteamId(p) == 100 + p

RowsOf(p) ==
  { [name |-> NameA(p), playeruid |-> p, steamid |-> SteamId(p)] } \cup
  IF p \in Volatile
  THEN { [name |-> NameA(p), playeruid |-> 0, steamid |-> SteamId(p)],
         [name |-> NameB(p), playeruid |-> p, steamid |-> SteamId(p)] }
  ELSE {}

AllRows == UNION { RowsOf(p) : p \in Players }

\* Every table the console may answer: at most one row per player.
Responses ==
  { t \in SUBSET AllRows : \A p \in Players : Cardinality(t \cap RowsOf(p)) <= 1 }

(***************************************************************************)
(* DataFrame helpers.                                                      *)
(***************************************************************************)
DropColumn(r, c) == [f \in (DOMAIN r) \ {c} |-> r[f]]

Uids(df) == { r.playeruid : r \in df }

Key(r, cols) == [i \in 1..Len(cols) |-> r[cols[i]]]

LexLess(a, b) ==
  \E i \in 1..Len(a) : a[i] < b[i] /\ \A j \in 1..(i - 1) : a[j] = b[j]

RECURSIVE SortRows(_, _)
SortRows(rows, cols) ==
  IF rows = {} THEN <<>>
  ELSE LET m == CHOOSE r \in rows :
                  \A o \in rows \ {r} : LexLess(Key(r, cols), Key(o, cols))
       IN  <<m>> \o SortRows(rows \ {m}, cols)

Tagged(r, t) ==
  [f \in (DOMAIN r) \cup {"_merge"} |-> IF f = "_merge" THEN t ELSE r[f]]

\* pd.merge(left, right, how="outer", indicator=True): joined on all the
\* common columns, i.e. on whole rows; outer merges sort by the join keys.
MergeLeftJoin(left, right, cols) ==
  SortRows({ Tagged(r, IF r \in right THEN "both" ELSE "left_only") :
             r \in left }, cols)

MergeInner(left, right, cols) ==
  SortRows({ Tagged(r, "both") : r \in left \cap right }, cols)

Merge(left, right, cols) ==
  SortRows({ Tagged(r, IF r \in left /\ r \in right THEN "both"
                       ELSE IF r \in left THEN "left_only"
                       ELSE "right_only") : r \in left \cup right }, cols)

Only(merged, tag) == SelectSeq(merged, LAMBDA r : r["_merge"] = tag)

\* next_data_raw[next_data_raw["playeruid"] != 0].drop(columns=["steamid"])
FilterPlayersUnfiltered(raw) == { DropColumn(r, "steamid") : r \in raw }
FilterPlayers(raw) ==
  { DropColumn(r, "steamid") : r \in { x \in raw : x.playeruid # 0 } }

\* if self.prev_data is None: self.prev_data = next_data
SeedPrevEmpty(prev, next) == IF prev = None THEN Some({}) ELSE prev
SeedPrevAlways(prev, next) == Some(next)
SeedPrev(prev, next) == IF prev = None THEN Some(next) ELSE prev

\* outer_raw_data[outer_raw_data["playeruid"] == uid].iloc[0]
RECURSIVE FirstWithUid(_, _)
FirstWithUid(merged, uid) ==
  IF Head(merged).playeruid = uid THEN Head(merged)
  ELSE FirstWithUid(Tail(merged), uid)

(***************************************************************************)
(* Settings.  A credential is modelled by whether it is set; a message     *)
(* template by the set of placeholders it names (join_message and          *)
(* join_broadcast_message together, likewise for leave).                   *)
(***************************************************************************)
DefaultFields == {"name", "steamid"}
TemplateChoices == { DefaultFields, {"name", "level"} }

Settings ==
  [ line_notify_token : BOOLEAN,
    discord_webhook_url : BOOLEAN,
    restart_on_last_leave : BOOLEAN,
    join_fields : TemplateChoices,
    leave_fields : TemplateChoices ]

\* template.format(**data): the value substituted for each placeholder;
\* a placeholder that is no column of the row raises KeyError.  The
\* replace(" ", "_") of the broadcast text leaves what is substituted as it is.
CanFormat(fields, data) == fields \subseteq DOMAIN data
Format(fields, data) == [f \in fields |-> data[f]]

VARIABLES
  env,             \* the Settings instance
  debug,           \* the interpreter's __debug__
  prev_data,       \* PalworldNotify.prev_data
  prev_data_raw,   \* PalworldNotify.prev_data_raw
  next_data,       \* locals of check()
  next_data_raw,
  outer_raw_data,
  join,
  leave,
  pc,              \* position of the single thread
  step,            \* which call of the current loop iteration is next
  idx,             \* index of the current row of join / leave
  session,         \* number of open RCON sessions
  err,             \* the exception that ended the current cycle
  log,             \* calls of this cycle that returned, in order
  seeded,          \* this cycle's poll found prev_data None
  delivered        \* calls that returned for changes not yet in prev_data

cfgVars == <<env, debug>>
stateVars == <<prev_data, prev_data_raw>>
localVars == <<next_data, next_data_raw, outer_raw_data, join, leave>>
ctlVars == <<pc, step, idx, session, err>>
histVars == <<log, seeded, delivered>>
vars == <<cfgVars, stateVars, localVars, ctlVars, histVars>>


(***************************************************************************)
(* Control flow of check().  A position is the call that is made next.     *)
(***************************************************************************)
At(p, s, i) == [pc |-> p, step |-> s, idx |-> i]

Goto(pos) == pc' = pos.pc /\ step' = pos.step /\ idx' = pos.idx

\* if env.restart_on_last_leave and next_data.empty and not self.prev_data.empty
RestartDueIgnoresFlag == next_data = {} /\ Val(prev_data) # {}
RestartDueWhileEmpty == env.restart_on_last_leave /\ next_data = {}
RestartDue ==
  env.restart_on_last_leave /\ next_data = {} /\ Val(prev_data) # {}

AfterLoops == IF RestartDue THEN At("save", "none", 0) ELSE At("commit", "none", 0)

\* for _, row in leave.iterrows()
EnterLeave ==
  IF Len(leave) > 0 THEN At("leave", "broadcast", 1) ELSE AfterLoops

\* for _, row in join.iterrows()
EnterJoin ==
  IF Len(join) > 0 THEN At("join", "broadcast", 1) ELSE EnterLeave

NextRowZipped ==
  IF pc = "join"
  THEN IF idx <= Len(leave) THEN At("leave", "broadcast", idx)
       ELSE IF idx < Len(join) THEN At("join", "broadcast", idx + 1)
       ELSE IF RestartDue THEN At("save", "none", 0) ELSE At("commit", "none", 0)
  ELSE IF idx < Len(join) THEN At("join", "broadcast", idx + 1)
       ELSE IF idx < Len(leave) THEN At("leave", "broadcast", idx + 1)
       ELSE IF RestartDue THEN At("save", "none", 0) ELSE At("commit", "none", 0)

NextRow ==
  IF pc = "join"
  THEN IF idx < Len(join) THEN At("join", "broadcast", idx + 1) ELSE EnterLeave
  ELSE IF idx < Len(leave) THEN At("leave", "broadcast", idx + 1) ELSE AfterLoops

\* if env.discord_webhook_url: send_discord_webhook(text)
AfterLine ==
  IF env.discord_webhook_url THEN At(pc, "discord", idx) ELSE NextRow

\* if env.line_notify_token: send_line_notify(text)
AfterBroadcastElif ==
  IF env.line_notify_token THEN At(pc, "line", idx) ELSE NextRow
AfterBroadcast ==
  IF env.line_notify_token THEN At(pc, "line", idx) ELSE AfterLine

\* The row of the current loop iteration, the raw record looked up for it
\* and the template placeholders of its messages.
Row == IF pc = "join" THEN join[idx] ELSE leave[idx]
Data == FirstWithUid(outer_raw_data, Row.playeruid)
Fields == IF pc = "join" THEN env.join_fields ELSE env.leave_fields

(***************************************************************************)
(* Calls that returned.  `delivered` keeps the key of every call that has  *)
(* returned for a change that prev_data does not record yet, for as long   *)
(* as the polled player list still shows that change.                      *)
(***************************************************************************)
NoArgs == [f \in {} |-> 0]
Call(c, e, u, t) == [cmd |-> c, ev |-> e, uid |-> u, text |-> t]
CallKey(c) == [cmd |-> c.cmd, ev |-> c.ev, uid |-> c.uid]

StillCurrent(d, nd) ==
  { k \in d : /\ k.ev = "join" => k.uid \in Uids(nd)
              /\ k.ev = "leave" => k.uid \notin Uids(nd)
              /\ k.ev = "none" => nd = {} }

Returned(c) ==
  /\ log' = Append(log, c)
  /\ delivered' = delivered \cup {CallKey(c)}
  /\ UNCHANGED seeded

(***************************************************************************)
(* The loop of the __main__ block: an exception leaves the with block      *)
(* (closing the session) and reaches the except clause, which re-raises    *)
(* when __debug__ is true and otherwise logs and sleeps.                   *)
(***************************************************************************)
OnExceptionAlwaysExits == "exited"
OnException == IF debug THEN "exited" ELSE "sleep"

RaiseLeavesSessionOpen(kind) ==
  /\ pc' = OnException
  /\ err' = kind
  /\ UNCHANGED <<step, idx, session>>

Raise(kind) ==
  /\ pc' = OnException
  /\ err' = kind
  /\ session' = 0
  /\ UNCHANGED <<step, idx>>

Init ==
  /\ env \in Settings
  /\ debug \in BOOLEAN
  /\ prev_data = None
  /\ prev_data_raw = None
  /\ next_data = {}
  /\ next_data_raw = {}
  /\ outer_raw_data = <<>>
  /\ join = <<>>
  /\ leave = <<>>
  /\ pc = "loop"
  /\ step = "none"
  /\ idx = 0
  /\ session = 0
  /\ err = "none"
  /\ log = <<>>
  /\ seeded = FALSE
  /\ delivered = {}

\* with Client(env.ip, env.port, passwd=env.password) as client:   (line 100)
Connect1 ==
  /\ pc = "loop"
  /\ \E out \in {"ok", "raise"} :
       IF out = "ok"
       THEN pc' = "show" /\ session' = 1 /\ UNCHANGED <<step, idx, err>>
       ELSE Raise("connect")
  /\ UNCHANGED <<cfgVars, stateVars, localVars, histVars>>

\* ShowPlayers, read_csv, the filter, the seeding and the two merges.
ShowPlayers ==
  /\ pc = "show"
  /\ \E resp \in Responses :
       LET nd == FilterPlayers(resp)
           pd == SeedPrev(prev_data, nd)
           pdr == SeedPrev(prev_data_raw, resp)
           outer_data == Merge(nd, Val(pd), SelectSeq(Columns, LAMBDA c : c # "steamid"))
       IN  /\ next_data_raw' = resp
           /\ next_data' = nd
           /\ prev_data' = pd
           /\ prev_data_raw' = pdr
           /\ outer_raw_data' = Merge(resp, Val(pdr), Columns)
           /\ join' = Only(outer_data, "left_only")
           /\ leave' = Only(outer_data, "right_only")
           /\ seeded' = (prev_data = None)
           /\ delivered' = StillCurrent(delivered, nd)
  /\ pc' = "connect2"
  /\ session' = 0
  /\ UNCHANGED <<cfgVars, step, idx, err, log>>

\* client.run("ShowPlayers") raises, or the answer is no table with the
\* playeruid and steamid columns (read_csv, the indexing or drop raise).
ShowPlayersRaises ==
  /\ pc = "show"
  /\ \E kind \in {"command", "parse"} : Raise(kind)
  /\ UNCHANGED <<cfgVars, stateVars, localVars, histVars>>

\* with Client(env.ip, env.port, passwd=env.password) as client:   (line 128)
Connect2 ==
  /\ pc = "connect2"
  /\ \E out \in {"ok", "raise"} :
       IF out = "ok"
       THEN Goto(EnterJoin) /\ session' = 1 /\ UNCHANGED err
       ELSE Raise("connect")
  /\ UNCHANGED <<cfgVars, stateVars, localVars, histVars>>

\* The two format calls and client.run("Broadcast", text_broadcast).
Broadcast ==
  /\ pc \in {"join", "leave"}
  /\ step = "broadcast"
  /\ IF ~CanFormat(Fields, Data)
     THEN Raise("template") /\ UNCHANGED histVars
     ELSE \E out \in {"ok", "raise"} :
            IF out = "ok"
            THEN /\ Returned(Call("Broadcast", pc, Row.playeruid, Format(Fields, Data)))
                 /\ Goto(AfterBroadcast)
                 /\ UNCHANGED <<session, err>>
            ELSE Raise("command") /\ UNCHANGED histVars
  /\ UNCHANGED <<cfgVars, stateVars, localVars>>

\* send_line_notify(text): requests.post returns (whatever the HTTP
\* status), raises, or never answers (no timeout is passed).
LineNotify ==
  /\ pc \in {"join", "leave"}
  /\ step = "line"
  /\ \E out \in {"ok", "raise", "hang"} :
       CASE out = "ok" ->
              /\ Returned(Call("Line", pc, Row.playeruid, Format(Fields, Data)))
              /\ Goto(AfterLine)
              /\ UNCHANGED <<session, err>>
         [] out = "raise" -> Raise("line") /\ UNCHANGED histVars
         [] out = "hang" ->
              pc' = "hung" /\ UNCHANGED <<step, idx, session, err, histVars>>
  /\ UNCHANGED <<cfgVars, stateVars, localVars>>

\* send_discord_webhook(text)
DiscordWebhook ==
  /\ pc \in {"join", "leave"}
  /\ step = "discord"
  /\ \E out \in {"ok", "raise", "hang"} :
       CASE out = "ok" ->
              /\ Returned(Call("Discord", pc, Row.playeruid, Format(Fields, Data)))
              /\ Goto(NextRow)
              /\ UNCHANGED <<session, err>>
         [] out = "raise" -> Raise("discord") /\ UNCHANGED histVars
         [] out = "hang" ->
              pc' = "hung" /\ UNCHANGED <<step, idx, session, err, histVars>>
  /\ UNCHANGED <<cfgVars, stateVars, localVars>>

\* client.run("Save", enforce_id=False)
Save ==
  /\ pc = "save"
  /\ \E out \in {"ok", "raise"} :
       IF out = "ok"
       THEN /\ Returned(Call("Save", "none", 0, NoArgs))
            /\ pc' = "shutdown"
            /\ UNCHANGED <<step, idx, session, err>>
       ELSE Raise("command") /\ UNCHANGED histVars
  /\ UNCHANGED <<cfgVars, stateVars, localVars>>

\* client.run("Shutdown", "5", enforce_id=False)
Shutdown ==
  /\ pc = "shutdown"
  /\ \E out \in {"ok", "raise"} :
       IF out = "ok"
       THEN /\ Returned(Call("Shutdown", "none", 0, [seconds |-> 5]))
            /\ pc' = "commit"
            /\ UNCHANGED <<step, idx, session, err>>
       ELSE Raise("command") /\ UNCHANGED histVars
  /\ UNCHANGED <<cfgVars, stateVars, localVars>>

\* self.prev_data = next_data; self.prev_data_raw = next_data_raw; the with
\* block ends and check() returns.
Commit ==
  /\ pc = "commit"
  /\ prev_data' = Some(next_data)
  /\ prev_data_raw' = Some(next_data_raw)
  /\ session' = 0
  /\ pc' = "sleep"
  /\ delivered' = {}
  /\ UNCHANGED <<cfgVars, localVars, step, idx, err, log, seeded>>

\* time.sleep(env.wait_time), after check() or in the except clause; the
\* locals of the finished call are gone when the next one starts.
Sleep ==
  /\ pc = "sleep"
  /\ pc' = "loop"
  /\ step' = "none"
  /\ idx' = 0
  /\ err' = "none"
  /\ next_data' = {}
  /\ next_data_raw' = {}
  /\ outer_raw_data' = <<>>
  /\ join' = <<>>
  /\ leave' = <<>>
  /\ log' = <<>>
  /\ seeded' = FALSE
  /\ UNCHANGED <<cfgVars, stateVars, session, delivered>>

Next ==
  \/ Connect1
  \/ ShowPlayers
  \/ ShowPlayersRaises
  \/ Connect2
  \/ Broadcast
  \/ LineNotify
  \/ DiscordWebhook
  \/ Save
  \/ Shutdown
  \/ Commit
  \/ Sleep

Spec == Init /\ [][Next]_vars

\* The thread keeps running: every call returns, raises or (a sink) hangs.
FairSpec == Spec /\ WF_vars(Next)

(***************************************************************************)
(* Vocabulary of the properties.                                           *)
(***************************************************************************)
\* check() has polled and has not yet replaced prev_data: prev_data is the
\* previous snapshot, next_data the current one.
Diffed == pc \in {"connect2", "join", "leave", "save", "shutdown", "commit"}

\* The cycle is over: check() returned or raised.
CycleEnded == pc \in {"sleep", "exited"}

JoinedUids == { join[i].playeruid : i \in 1..Len(join) }
LeftUids == { leave[i].playeruid : i \in 1..Len(leave) }
NumEvents == Len(join) + Len(leave)

Count(c) == Cardinality({ i \in 1..Len(log) : log[i].cmd = c })

\* The step appends a call to the log: that call.
CallReturns == Len(log') = Len(log) + 1
NewCall == log'[Len(log')]

\* Every call a cycle makes when nothing raises, in the order of the code.
CallsFor(e, row) ==
  LET t == Format(IF e = "join" THEN env.join_fields ELSE env.leave_fields,
                  FirstWithUid(outer_raw_data, row.playeruid))
  IN  <<Call("Broadcast", e, row.playeruid, t)>>
      \o (IF env.line_notify_token
          THEN <<Call("Line", e, row.playeruid, t)>> ELSE <<>>)
      \o (IF env.discord_webhook_url
          THEN <<Call("Discord", e, row.playeruid, t)>> ELSE <<>>)

RECURSIVE CallsForRows(_, _)
CallsForRows(e, rows) ==
  IF rows = <<>> THEN <<>>
  ELSE CallsFor(e, Head(rows)) \o CallsForRows(e, Tail(rows))

ExpectedCalls ==
  CallsForRows("join", join) \o CallsForRows("leave", leave)
  \o (IF RestartDue
      THEN <<Call("Save", "none", 0, NoArgs),
             Call("Shutdown", "none", 0, [seconds |-> 5])>>
      ELSE <<>>)

(***************************************************************************)
(* C1.  In the cycle whose poll finds prev_data None, the previous         *)
(* snapshot (filtered and raw) equals the current one, the diff is empty   *)
(* and no Broadcast, sink message, Save or Shutdown is made, whoever is    *)
(* online.                                                                 *)
(***************************************************************************)
FirstPollSeedsSilently ==
  seeded =>
    /\ prev_data = Some(next_data)
    /\ prev_data_raw = Some(next_data_raw)
    /\ join = <<>>
    /\ leave = <<>>
    /\ log = <<>>
    /\ pc \notin {"join", "leave", "save", "shutdown"}

\* The first cycle has ended normally with players online from the start.
FirstPollWithPlayersOnline ==
  seeded /\ pc = "sleep" /\ err = "none" /\ Cardinality(next_data) >= 2

(***************************************************************************)
(* C2.  As claimed: in a cycle with a previous snapshot the Joined events  *)
(* are exactly one per playeruid of current that is not in previous, the   *)
(* Left events exactly one per playeruid of previous that is not in        *)
(* current, and there is no other event.                                   *)
(***************************************************************************)
EventsAreUidDifference ==
  (Diffed /\ ~seeded) =>
    LET P == Uids(Val(prev_data))
        C == Uids(next_data)
    IN  /\ JoinedUids = C \ P
        /\ Len(join) = Cardinality(C \ P)
        /\ LeftUids = P \ C
        /\ Len(leave) = Cardinality(P \ C)

(***************************************************************************)
(* C3.  As claimed: a playeruid that is in both the previous and the       *)
(* current snapshot is the playeruid of no Joined and of no Left event,    *)
(* whatever its other fields.                                              *)
(***************************************************************************)
NoEventForPlayerInBoth ==
  Diffed =>
    \A u \in Uids(Val(prev_data)) \cap Uids(next_data) :
      u \notin JoinedUids /\ u \notin LeftUids

(***************************************************************************)
(* C4.  As claimed: Save and Shutdown are made once per transition from a  *)
(* non-empty to an empty player list: a Save or Shutdown that returns was  *)
(* not already made for the emptiness the poll still shows.                *)
(***************************************************************************)
RestartIsOneShot ==
  [][(CallReturns /\ NewCall.cmd \in {"Save", "Shutdown"})
       => CallKey(NewCall) \notin delivered]_vars

(***************************************************************************)
(* C5.  As claimed: the Broadcast and each sink message of one join or     *)
(* leave are sent at most once: a message that is sent was not already     *)
(* sent for the same presence change in an earlier, failed cycle.          *)
(***************************************************************************)
NoRedelivery ==
  [][(CallReturns /\ NewCall.cmd \in {"Broadcast", "Line", "Discord"})
       => CallKey(NewCall) \notin delivered]_vars

(***************************************************************************)
(* C6.  As claimed: when a sink call fails, the cycle still sends every    *)
(* event's Broadcast and every event's message to the other configured     *)
(* sink.                                                                   *)
(***************************************************************************)
SinkFailureIsIsolated ==
  (CycleEnded /\ err \in {"line", "discord"}) =>
    /\ Count("Broadcast") = NumEvents
    /\ (err = "line" /\ env.discord_webhook_url) => Count("Discord") = NumEvents
    /\ (err = "discord" /\ env.line_notify_token) => Count("Line") = NumEvents

TemplateErrorIsContained ==
  (CycleEnded /\ err \in {"none", "template"}) =>
    /\ err = "none"
    /\ prev_data = Some(next_data)
    /\ \A i \in 1..Len(join) :
         CanFormat(env.join_fields, FirstWithUid(outer_raw_data, join[i].playeruid))
           => \E k \in 1..Len(log) :
                CallKey(log[k]) = [cmd |-> "Broadcast", ev |-> "join",
                                   uid |-> join[i].playeruid]
    /\ \A i \in 1..Len(leave) :
         CanFormat(env.leave_fields, FirstWithUid(outer_raw_data, leave[i].playeruid))
           => \E k \in 1..Len(log) :
                CallKey(log[k]) = [cmd |-> "Broadcast", ev |-> "leave",
                                   uid |-> leave[i].playeruid]

(***************************************************************************)
(* C9.  Once seeded, prev_data and prev_data_raw change only in the step   *)
(* that follows the last call of the cycle: every Broadcast, sink message  *)
(* and Save/Shutdown of the cycle has returned by then, and the new value  *)
(* is the current snapshot.                                                *)
(***************************************************************************)
PrevReplacedAfterAllCalls ==
  [][(prev_data # None /\ <<prev_data, prev_data_raw>>' # <<prev_data, prev_data_raw>>)
       => /\ pc = "commit"
          /\ log = ExpectedCalls
          /\ prev_data' = Some(next_data)
          /\ prev_data_raw' = Some(next_data_raw)]_vars

\* A cycle with events has made its calls and replaced the previous snapshot.
PrevReplacedAfterDispatch ==
  /\ pc = "sleep" /\ err = "none" /\ ~seeded
  /\ NumEvents >= 2
  /\ Len(log) >= 2
  /\ prev_data = Some(next_data)

SessionsAreScoped ==
  /\ session \in {0, 1}
  /\ pc \in {"loop", "connect2", "sleep", "exited"} => session = 0
  /\ session = 1 => pc \in {"show", "join", "leave", "save", "shutdown",
                            "commit", "hung"}

\* A call made inside the second with block raised and the loop is sleeping.
RaisedInsideSession ==
  /\ pc = "sleep"
  /\ err \in {"command", "template", "line", "discord"}
  /\ Len(join) + Len(leave) > 0
  /\ session = 0

(***************************************************************************)
(* C12.  As claimed: a sink call that never answers is given up, so the    *)
(* thread is never left blocked in a sink call.                            *)
(***************************************************************************)
NoSinkCallBlocksForever == pc # "hung"

(***************************************************************************)
(* C13.  Save and Shutdown are made only with restart_on_last_leave set,   *)
(* an empty current snapshot and a non-empty previous one; Save comes      *)
(* first, after the calls of every Left event, and Shutdown right after    *)
(* Save.                                                                   *)
(***************************************************************************)
RestartOnlyOnLastLeave ==
  \A k \in 1..Len(log) :
    /\ log[k].cmd \in {"Save", "Shutdown"} =>
         /\ env.restart_on_last_leave
         /\ next_data = {}
         /\ join = <<>>
         /\ leave # <<>>
         /\ Diffed => Val(prev_data) # {}
    /\ log[k].cmd = "Save" =>
         SubSeq(log, 1, k - 1) = CallsForRows("leave", leave)
    /\ log[k].cmd = "Shutdown" => (k > 1 /\ log[k - 1].cmd = "Save")

\* The last player left and the cycle made both commands and ended normally.
RestartIssued ==
  /\ pc = "sleep" /\ err = "none"
  /\ Count("Save") = 1 /\ Count("Shutdown") = 1
  /\ log[Len(log)].cmd = "Shutdown"
  /\ Len(leave) >= 2

(***************************************************************************)
(* C14.  A sink that is not configured is never called and raises nothing; *)
(* a cycle that ends normally has made the Broadcast of every event and    *)
(* the call of every configured sink for every event.                      *)
(***************************************************************************)
SinksAreOptional ==
  /\ ~env.line_notify_token =>
       (Count("Line") = 0 /\ err # "line" /\ step # "line")
  /\ ~env.discord_webhook_url =>
       (Count("Discord") = 0 /\ err # "discord" /\ step # "discord")
  /\ (pc = "sleep" /\ err = "none") =>
       /\ Count("Broadcast") = NumEvents
       /\ env.line_notify_token => Count("Line") = NumEvents
       /\ env.discord_webhook_url => Count("Discord") = NumEvents

\* Only the Discord webhook is configured and a cycle with events ended.
OnlyDiscordConfigured ==
  /\ pc = "sleep" /\ err = "none"
  /\ ~env.line_notify_token /\ env.discord_webhook_url
  /\ NumEvents >= 2
  /\ Count("Discord") = NumEvents /\ Count("Broadcast") = NumEvents


(***************************************************************************)
(* C15.  The diff is symmetric: the rows the cycle reports as joined       *)
(* (left_only of merge(next, prev)) are the rows that the merge with the   *)
(* two snapshots exchanged marks as left (right_only of merge(prev,        *)
(* next)), and the other way round.                                        *)
(***************************************************************************)
DataColumns == SelectSeq(Columns, LAMBDA c : c # "steamid")
RowsIn(rows) == { DropColumn(rows[i], "_merge") : i \in 1..Len(rows) }
Swapped == Merge(Val(prev_data), next_data, DataColumns)

DiffIsSymmetric ==
  Diffed =>
    /\ RowsIn(join) = RowsIn(Only(Swapped, "right_only"))
    /\ RowsIn(leave) = RowsIn(Only(Swapped, "left_only"))

\* A diff with rows on both sides.
DiffWithJoinAndLeave ==
  Diffed /\ ~seeded /\ Len(join) >= 2 /\ Len(leave) >= 1

(***************************************************************************)
(* C16.  A poll whose snapshot equals prev_data gives no join and no leave *)
(* row; the cycle makes no call (no Broadcast, no sink call, no Save, no   *)
(* Shutdown) and leaves prev_data as it is.                                *)
(***************************************************************************)
SameSnapshotIsSilent ==
  [][(Diffed /\ Val(prev_data) = next_data) =>
       /\ join = <<>> /\ leave = <<>>
       /\ log = <<>> /\ log' = <<>>
       /\ pc' \notin {"join", "leave", "save", "shutdown"}
       /\ prev_data' = prev_data]_vars

\* A later cycle polled the players already in prev_data and ended.
SamePlayersPolledAgain ==
  /\ pc = "sleep" /\ err = "none" /\ ~seeded
  /\ next_data # {} /\ Val(prev_data) = next_data
  /\ join = <<>> /\ leave = <<>> /\ log = <<>>

(***************************************************************************)
(* C17.  Once seeded, prev_data and prev_data_raw change only in the step  *)
(* that ends a cycle normally, never in a cycle that ends by an exception; *)
(* and every diff reports each playeruid that is in the polled list and    *)
(* not in prev_data as joined, each one in prev_data and not in the list   *)
(* as left.                                                                *)
(***************************************************************************)
AbortKeepsPrev ==
  [][/\ (err = "none" /\ err' # "none") =>
          UNCHANGED <<prev_data, prev_data_raw>>
     /\ (prev_data # None /\
         <<prev_data, prev_data_raw>>' # <<prev_data, prev_data_raw>>) =>
          (pc = "commit" /\ pc' = "sleep" /\ err' = "none")
     /\ Diffed' =>
          /\ Uids(next_data') \ Uids(Val(prev_data')) \subseteq JoinedUids'
          /\ Uids(Val(prev_data')) \ Uids(next_data') \subseteq LeftUids']_vars

\* A join whose calls were made in a cycle that raised is in the diff of a
\* later cycle, before any call of that cycle.
JoinDetectedAgain ==
  /\ Diffed /\ log = <<>> /\ ~seeded
  /\ \E k \in delivered :
       /\ k.ev = "join" /\ k.uid \in JoinedUids
       /\ k.uid \notin Uids(Val(prev_data))

(***************************************************************************)
(* C18.  As claimed: the text of every call of a Joined event is rendered  *)
(* from the player's row of the current raw response, that of a Left event *)
(* from the player's row of the previous raw response.                     *)
(***************************************************************************)
RawRow(raw, uid) == CHOOSE r \in raw : r.playeruid = uid

RendersOwnRecord ==
  Diffed =>
    \A k \in 1..Len(log) :
      /\ log[k].ev = "join" =>
           log[k].text =
             Format(env.join_fields, RawRow(next_data_raw, log[k].uid))
      /\ log[k].ev = "leave" =>
           log[k].text =
             Format(env.leave_fields, RawRow(Val(prev_data_raw), log[k].uid))

(***************************************************************************)
(* C19.  The calls of a cycle are in a fixed order: the calls of one row   *)
(* are consecutive, Broadcast then Line then Discord; no row is dispatched *)
(* twice; no join row comes after a leave row; nothing follows Save but    *)
(* Shutdown.                                                               *)
(***************************************************************************)
Rank(c) ==
  CASE c = "Broadcast" -> 1 [] c = "Line" -> 2 [] c = "Discord" -> 3
    [] c = "Save" -> 4 [] c = "Shutdown" -> 5

SameEvent(a, b) == a.ev = b.ev /\ a.uid = b.uid

DispatchIsOrdered ==
  \A i \in 1..Len(log) :
    LET c == log[i] IN
    IF i = 1 THEN c.cmd \in {"Broadcast", "Save"}
    ELSE LET b == log[i - 1] IN
      /\ c.cmd \in {"Line", "Discord"} =>
           (SameEvent(b, c) /\ Rank(b.cmd) < Rank(c.cmd))
      /\ c.cmd = "Broadcast" =>
           /\ b.ev # "none"
           /\ b.ev = "leave" => c.ev = "leave"
           /\ \A j \in 1..(i - 1) : ~SameEvent(log[j], c)
      /\ c.cmd = "Save" => b.ev = "leave"
      /\ c.cmd = "Shutdown" => b.cmd = "Save"

\* Two joins and a leave, both sinks configured, every call made.
FullDispatch ==
  /\ pc = "sleep" /\ err = "none"
  /\ env.line_notify_token /\ env.discord_webhook_url
  /\ Len(join) >= 2 /\ Len(leave) >= 1
  /\ Len(log) = 3 * NumEvents

====
